---- MODULE Spec2Model ----
(***************************************************************************)
(* Model of the user-cloning procedure run_clone of Get-Your-utils         *)
(* (python/clone_user.py): two database connections, the fixed table list, *)
(* the overwrite/new-identity policy, address de-duplication by content    *)
(* hash and the commit/rollback points of the target connection.           *)
(***************************************************************************)
EXTENDS Integers, Sequences, FiniteSets, TLC

\* Number of run_clone invocations executed one after the other.
MaxClones == 2

\* Python's None, for an identifier that is not known yet (targetUserId).
None == 0

(***************************************************************************)
(* Stores, profiles and connection handles                                 *)
(***************************************************************************)

\* The databases a connection can lead to: the two Postgres servers and the
\* single-file SQLite image.
DBs == {"prod", "dev", "local"}

\* Profile strings are "<app>_<env>"; genericProfile = 'getfoco'.
Profiles == {"getfoco_prod", "getfoco_dev", "getfoco_local"}

\* The <env> suffix of a profile string; str.endswith('_local'), endswith('dev')
\* and endswith('prod') test this suffix.
ProfileSuffix(profile) ==
    CASE profile = "getfoco_prod" -> "prod"
      [] profile = "getfoco_dev" -> "dev"
      [] profile = "getfoco_local" -> "local"

\* No handle supplied by the caller.
NoConn == [db |-> "none", closed |-> TRUE, by |-> "nobody"]

\* An open handle to database d supplied by the caller.
OpenConn(d) == [db |-> d, closed |-> FALSE, by |-> "caller"]

\* A handle to database d that the caller has closed before the call.
ClosedConn(d) == [db |-> d, closed |-> TRUE, by |-> "caller"]

\* A connection to database d established by run_clone.
NewConn(d) == [db |-> d, closed |-> FALSE, by |-> "run_clone"]

\* conn_info: whether a handle is active, its type and its environment.
conn_info(conn) ==
    IF conn = NoConn
    THEN [is_active |-> FALSE, type |-> "", environment |-> ""]
    ELSE IF conn.db \in {"prod", "dev"}
    THEN [is_active |-> ~conn.closed,
          type |-> "pg",
          environment |-> IF conn.closed THEN "unknown"
                          ELSE IF conn.db = "dev" THEN "dev"
                          ELSE IF conn.db = "prod" THEN "prod" ELSE "unknown"]
    ELSE [is_active |-> ~conn.closed, type |-> "sqlite", environment |-> "local"]

\* The handle is not looked at: a connection is always made.
ConnectAlways(conn, profile) ==
    IF ProfileSuffix(profile) = "local"
    THEN NewConn("local")
    ELSE NewConn(ProfileSuffix(profile))

\* The connection run_clone uses for one side: the supplied handle when it is
\* active, else a new connection from the profile (sqlite3.connect for a
\* '_local' profile, GetFoco(db_profile=...) otherwise).
Connect(conn, profile) ==
    IF conn_info(conn).is_active
    THEN conn
    ELSE IF ProfileSuffix(profile) = "local"
    THEN NewConn("local")
    ELSE NewConn(ProfileSuffix(profile))

\* srcConn = source_conn
SourceHandle(r) == r.source_conn

\* A copy-paste slip: the target side starts from the source handle.
TargetHandleFromSource(r) == r.source_conn

\* targetConn = target_conn
TargetHandle(r) == r.target_conn

(***************************************************************************)
(* Values held in columns and the conversions applied before an insert     *)
(***************************************************************************)

\* Python values as the drivers return them: <<"str", s>>, <<"json", k>> (a
\* str holding the JSON text of structure k), <<"dict", k>>, <<"int", n>>,
\* <<"float", n, d>> (the double nearest to n / 10^d) and <<"Decimal", n, d>>
\* (exactly n / 10^d).
Pow10(d) == IF d = 0 THEN 1 ELSE IF d = 1 THEN 10 ELSE 100

Pow5(d) == IF d = 0 THEN 1 ELSE IF d = 1 THEN 5 ELSE 25

\* len(str(x).split('.'))==1 for a Decimal of scale d: no decimal point is
\* printed when the scale is zero.
NoDecimalPoint(x) == x[3] = 0

\* The element conversion of the SQLite executemany calls: json.dumps for a
\* dict, int(x) for a Decimal printed without '.', float(x) for any other
\* Decimal, everything else unchanged.
AdaptSqlite(x) ==
    IF x[1] = "dict" THEN <<"json", x[2]>>
    ELSE IF x[1] = "Decimal" /\ NoDecimalPoint(x) THEN <<"int", x[2]>>
    ELSE IF x[1] = "Decimal" THEN <<"float", x[2], x[3]>>
    ELSE x

\* The element conversion of the Postgres execute calls: json.dumps for a dict.
AdaptPg(x) == IF x[1] = "dict" THEN <<"json", x[2]>> ELSE x

\* What a Postgres column gives back after the adapted value was stored in
\* it: JSON text sent to a jsonb column comes back as a dict, a number sent
\* to a numeric column comes back as a Decimal.  (The rows of the model keep
\* JSON text only in jsonb columns and numbers only in numeric columns.)
PgColumn(x) ==
    IF x[1] = "json" THEN <<"dict", x[2]>>
    ELSE IF x[1] = "int" THEN <<"Decimal", x[2], 0>>
    ELSE IF x[1] = "float" THEN <<"Decimal", x[2], x[3]>>
    ELSE x

\* Python's == between two fetched values: a Decimal equals an int or a
\* float only when they denote the same number; n / 10^d is a double exactly
\* when 5^d divides n.  A dict never equals a str.
PyEq(v, w) ==
    \/ v = w
    \/ /\ v[1] = "Decimal" /\ w[1] = "int"
       /\ v[2] = w[2] * Pow10(v[3])
    \/ /\ v[1] = "Decimal" /\ w[1] = "float"
       /\ v[2] % Pow5(v[3]) = 0
       /\ v[2] * Pow10(w[3]) = w[2] * Pow10(v[3])

(***************************************************************************)
(* Tables and rows                                                         *)
(***************************************************************************)

\* A slip in the table order: app_user no longer first.
tableListUserLast ==
    << "app_address", "app_household", "app_householdmembers",
       "app_eligibilityprogram", "app_iqprogram",
       "app_userhist", "app_addresshist", "app_householdhist",
       "app_householdmembershist", "app_eligibilityprogramhist",
       "app_iqprogramhist", "app_user" >>

\* tableList, in the order in which run_clone writes the tables.
tableList ==
    << "app_user", "app_address", "app_household", "app_householdmembers",
       "app_eligibilityprogram", "app_iqprogram",
       "app_userhist", "app_addresshist", "app_householdhist",
       "app_householdmembershist", "app_eligibilityprogramhist",
       "app_iqprogramhist" >>

NTables == Len(tableList)

DependentTables == {tableList[i] : i \in 1..NTables} \ {"app_user"}

AllTables == {tableList[i] : i \in 1..NTables} \cup {"app_addressrd"}

\* idField: the column that ties a row of a table to its user.
idField(table) == IF table = "app_user" THEN "id" ELSE "user_id"

\* The user a row of a table belongs to.
Owner(table, row) == IF table = "app_user" THEN row.id ELSE row.user_id

\* The two address references of an app_address row, in the order resolved.
addtypes == <<"eligibility_address_id", "mailing_address_id">>

\* The secret PASSWORD_CLONE_ACCOUNT: the email of the template account.
passwordClone == "template@x.com"

\* str.lower() on the email addresses of the model.
Lower(email) ==
    CASE email = "A@x.com" -> "a@x.com"
      [] email = "B@x.com" -> "b@x.com"
      [] OTHER -> email

Max(S) == IF S = {} THEN 0 ELSE CHOOSE m \in S : \A n \in S : n <= m

\* The rows of a set in ascending id order.
RECURSIVE SortById(_)
SortById(S) ==
    IF S = {} THEN <<>>
    ELSE LET r == CHOOSE x \in S : \A y \in S : x.id <= y.id
         IN  <<r>> \o SortById(S \ {r})

Range(seq) == {seq[i] : i \in 1..Len(seq)}

UserRow(id, email, password, val) ==
    [id |-> id, email |-> email, password |-> password,
     phone_number |-> "+19705550000", is_archived |-> FALSE, val |-> val]

AddressRow(id, uid, elig, mail) ==
    [id |-> id, user_id |-> uid, eligibility_address_id |-> elig,
     mailing_address_id |-> mail, val |-> <<"str", "verified">>]

DepRow(id, uid, val) == [id |-> id, user_id |-> uid, val |-> val]

AddressRd(id, sha1, val) == [id |-> id, address_sha1 |-> sha1, val |-> val]

EmptyRows == [t \in AllTables |-> {}]

\* A database: the rows of every table and, per table, the next identifier
\* the store hands out (identifiers are never used twice).
Database(rows) ==
    [rows |-> rows,
     next |-> [t \in AllTables |-> Max({r.id : r \in rows[t]}) + 1]]

\* Production (Postgres): users 1 (A@x.com) and 2 (b@x.com) and the template
\* account.  User 1 uses one address for both references, user 2 two
\* different ones.
ProdRows ==
    [EmptyRows EXCEPT
       !["app_user"] = {UserRow(1, "A@x.com", "pwA", <<"str", "Ann">>),
                        UserRow(2, "b@x.com", "pwB", <<"str", "Bob">>),
                        UserRow(8, passwordClone, "pwP", <<"str", "Tmpl">>)},
       !["app_addressrd"] = {AddressRd(10, "H1", <<"Decimal", 1, 1>>),
                             AddressRd(11, "H2", <<"Decimal", 3, 0>>)},
       !["app_address"] = {AddressRow(1, 1, 10, 10), AddressRow(2, 2, 10, 11)},
       !["app_household"] = {DepRow(1, 1, <<"Decimal", 1, 1>>),
                             DepRow(2, 2, <<"Decimal", 5, 1>>)},
       !["app_householdmembers"] = {DepRow(1, 1, <<"dict", "members">>)},
       !["app_eligibilityprogram"] = {DepRow(1, 1, <<"str", "snap">>),
                                      DepRow(2, 1, <<"str", "medicaid">>),
                                      DepRow(3, 2, <<"str", "snap">>)},
       !["app_addresshist"] = {DepRow(1, 1, <<"dict", "old address">>)}]

\* Development (Postgres): the template account and user 1, an earlier copy
\* of b@x.com, with address H2 already present.
DevRows ==
    [EmptyRows EXCEPT
       !["app_user"] = {UserRow(1, "b@x.com", "pwT", <<"str", "Bob">>),
                        UserRow(9, passwordClone, "pwT", <<"str", "Tmpl">>)},
       !["app_addressrd"] = {AddressRd(20, "H2", <<"Decimal", 3, 0>>)},
       !["app_address"] = {AddressRow(1, 1, 20, 20)},
       !["app_household"] = {DepRow(1, 1, <<"Decimal", 3, 0>>)},
       !["app_iqprogram"] = {DepRow(1, 1, <<"str", "grocery">>)},
       !["app_userhist"] = {DepRow(1, 1, <<"dict", "old user">>)}]

\* The local SQLite image: user 1 (a@x.com) and two accounts whose emails
\* differ in case only; SQLite holds JSON as text and decimals as integers
\* or reals.
LocalRows ==
    [EmptyRows EXCEPT
       !["app_user"] = {UserRow(1, "a@x.com", "pwL", <<"str", "Ann">>),
                        UserRow(3, "B@x.com", "pwM", <<"str", "Bea">>),
                        UserRow(4, "b@x.com", "pwN", <<"str", "Ben">>)},
       !["app_addressrd"] = {AddressRd(5, "H1", <<"float", 1, 1>>)},
       !["app_address"] = {AddressRow(1, 1, 5, 5)},
       !["app_household"] = {DepRow(1, 1, <<"int", 3>>)},
       !["app_householdmembers"] = {DepRow(1, 1, <<"json", "members">>)}]

InitStore ==
    [d \in DBs |-> Database(CASE d = "prod" -> ProdRows
                              [] d = "dev" -> DevRows
                              [] d = "local" -> LocalRows)]

(***************************************************************************)
(* State                                                                   *)
(***************************************************************************)

VARIABLES
    store,          \* committed content of every database
    tgt,            \* the target connection's view: committed + own writes
    pc,             \* position of the current run_clone invocation
    req,            \* its arguments
    srcConn,        \* the source connection in use
    targetConn,     \* the target connection in use
    srcUserId,
    targetUserId,
    userExists,
    targetPassword,
    table,          \* index into tableList of the table being processed
    addtype,        \* index into addtypes of the reference being resolved
    dbOut,          \* the fetched, transformed rows of the current table
    targetAddrId,   \* the identifier of the address row just inserted
    outcome,        \* "none", "ok" (returned normally) or "raised"
    clones,         \* invocations completed so far
    pre,            \* history: the stores when the invocation started
    ops,            \* history: statements executed on the target connection
    answer,         \* history: "not_asked", "yes" or "no" (Confirm.ask)
    resolved,       \* history: the address resolutions of the invocation
    written,        \* history: <<table, row>> inserted by the copy loop
    raisedAt,       \* history: where the exception was raised
    srcCursor,      \* "none", "open" or "closed"
    targetCursor,   \* "none", "open" or "closed"
    devConn,        \* the auxiliary dev connection: "none", "open", "closed"
    opened,         \* history: the sides run_clone connected by itself
    connClosed,     \* the sides whose connection run_clone has closed
    caught,         \* history: exceptions handled inside run_clone
    exc,            \* the exception that left the try block, "" if none
    content,        \* Extract: what the queries find, and the flags at first
    flags,          \* Extract: committed <<table, user>> with is_updated true
    xview,          \* Extract: the same as the connection sees it
    xreq,           \* Extract: export_type and kwargs of the construction
    xpc,            \* Extract: position of the run
    xprog,          \* Extract: index into active_programs
    allAffectedUsers,
    dfBound,        \* Extract: export_programs has assigned its local df
    files,          \* Extract: the files written, <<name, user ids>>
    xops,           \* Extract: history of the statements that write
    xexc,           \* Extract: the exception that left the run, "" if none
    xtrace          \* Extract: history of the operations entered

vars ==
    << store, tgt, pc, req, srcConn, targetConn, srcUserId, targetUserId,
       userExists, targetPassword, table, addtype, dbOut, targetAddrId,
       outcome, clones, pre, ops, answer, resolved, written, raisedAt,
       srcCursor, targetCursor, devConn, opened, connClosed, caught,
       exc, content, flags, xview, xreq, xpc, xprog, allAffectedUsers,
       dfBound, files, xops, xexc, xtrace >>

\* The state of run_clone and of its stores.
clone ==
    << store, tgt, pc, req, srcConn, targetConn, srcUserId, targetUserId,
       userExists, targetPassword, table, addtype, dbOut, targetAddrId,
       outcome, clones, pre, ops, answer, resolved, written, raisedAt,
       srcCursor, targetCursor, devConn, opened, connClosed, caught,
       exc >>

\* The state of the Extract object and of its database.
extract ==
    << content, flags, xview, xreq, xpc, xprog, allAffectedUsers, dfBound,
       files, xops, xexc, xtrace >>

cursors == << srcCursor, targetCursor, opened, connClosed >>

handled == << devConn, caught >>

locals ==
    << srcUserId, targetUserId, userExists, targetPassword, table, addtype,
       dbOut, targetAddrId >>

history == << pre, answer, resolved, written >>

Emails == {"a@x.com", "b@x.com"}

Handles == {NoConn} \cup {OpenConn(d) : d \in DBs}
               \cup {ClosedConn(d) : d \in DBs}

\* The target email of an invocation: a fresh address for every call (the
\* email must be unique in the target database).
TargetEmail(n) ==
    CASE n = 0 -> "clone1@x.com"
      [] n = 1 -> "clone2@x.com"
      [] OTHER -> "clone3@x.com"

\* The calls of the model.  The interactive entry point passes no handles
\* (line 676); a programmatic caller (interactive=False) keeps its own
\* connections open and passes them: the source handle leads to the database
\* of the source profile, the target handle to any database, since the
\* profiles are not verified against active connections.  A caller may also
\* pass its open handles and leave interactive at its default, or pass a
\* handle it has closed.
Request(sp, tp, e, i, sc, tc) ==
    [source_profile |-> sp, target_profile |-> tp, source_email |-> e,
     target_email |-> TargetEmail(clones), interactive |-> i,
     source_conn |-> sc, target_conn |-> tc]

\* The databases the target handle passed with target profile tp may lead
\* to: the profile's own, and for the Postgres profiles also another one.
TargetHandleDBs(tp) ==
    CASE ProfileSuffix(tp) = "prod" -> {"prod", "dev"}
      [] ProfileSuffix(tp) = "dev" -> {"dev", "prod", "local"}
      [] ProfileSuffix(tp) = "local" -> {"local"}

Requests ==
    UNION { { Request(sp, tp, e, TRUE, NoConn, NoConn) : e \in Emails }
            \cup
            { Request(sp, tp, e, FALSE, OpenConn(ProfileSuffix(sp)), OpenConn(d)) :
                e \in Emails, d \in TargetHandleDBs(tp) }
            \cup
            { Request(sp, tp, "a@x.com", TRUE, OpenConn(ProfileSuffix(sp)),
                      OpenConn(ProfileSuffix(tp))),
              Request(sp, tp, "b@x.com", FALSE, NoConn,
                      ClosedConn(ProfileSuffix(tp))) }
          : sp \in Profiles, tp \in Profiles }

NoRequest ==
    [source_profile |-> "getfoco_prod", target_profile |-> "getfoco_dev",
     source_email |-> "a@x.com", target_email |-> "clone1@x.com",
     interactive |-> TRUE, source_conn |-> NoConn, target_conn |-> NoConn]

srcDb == srcConn.db

targetDb == targetConn.db

srcLocal == conn_info(srcConn).type = "sqlite"

srcEnv == conn_info(srcConn).environment

targetLocal == conn_info(targetConn).type = "sqlite"

targetEnv == conn_info(targetConn).environment

(***************************************************************************)
(* The reporting subsystem (run_extracts.py): data                         *)
(***************************************************************************)

\* The users of the database (none of them archived).
Users == {1, 2}

\* GetFoco.active_programs, by program_name: 'grocery' has a renewal query
\* of its own, 'spin' a shorter field list.
active_programs == <<"grocery", "spin">>

NPrograms == Len(active_programs)

\* GetFoco.hist_tables, by live-table name: the tables whose is_updated
\* column is reset.
hist_tables ==
    <<"app_user", "app_address", "app_household", "app_householdmembers">>

\* What app_iqprogram holds for a user and a program: no record; a record
\* with is_enrolled false of a new applicant or of one who has renewed
\* (applied_at after last_renewed_at); a record with is_enrolled true.
Status(program) ==
    IF program = "grocery"
    THEN {"none", "new", "renewal", "enrolled"}
    ELSE {"none", "new", "enrolled"}

\* The rows the income-verification query finds (matched) and those among
\* them whose household members all have an identification_path (kept).
IncomeCases ==
    { [matched |-> {}, kept |-> {}],
      [matched |-> {1}, kept |-> {}],
      [matched |-> {1, 2}, kept |-> {1}] }

\* The is_updated flags that are set, as <<live table, user id>>.
FlagCases ==
    { f \cup g :
        f \in { {}, {<<"app_user", 1>>}, {<<"app_household", 1>>} },
        g \in { {}, {<<"app_householdmembers", 2>>},
                {<<"app_user", 2>>, <<"app_address", 2>>} } }

\* A flag that was set by a visit of the household page with nothing
\* changed (lines 411-453 recognise it).
Spurious == {<<"app_householdmembers", 2>>}

\* The database contents of the model.
Contents ==
    { [status |-> [p \in {"grocery", "spin"} |->
                      IF p = "grocery" THEN g ELSE s],
       income |-> i, flags |-> f] :
        g \in [Users -> Status("grocery")], s \in [Users -> Status("spin")],
        i \in IncomeCases, f \in FlagCases }

NoContent ==
    [status |-> [p \in {"grocery", "spin"} |-> [u \in Users |-> "none"]],
     income |-> [matched |-> {}, kept |-> {}], flags |-> {}]

\* Extract(export_type=..., **kwargs), interactive left False: the
\* construction runs the export and closes the connection.
XRequests ==
    [export_type : {"ALL", "INCOME", "PROGRAM"},
     save_file : BOOLEAN, reset_updates : BOOLEAN]

NoXRequest ==
    [export_type |-> "ALL", save_file |-> TRUE, reset_updates |-> TRUE]

\* No Extract object exists.
NoExtract ==
    /\ content = NoContent
    /\ flags = {}
    /\ xview = {}
    /\ xreq = NoXRequest
    /\ xpc = "idle"
    /\ xprog = 1
    /\ allAffectedUsers = {}
    /\ dfBound = FALSE
    /\ files = {}
    /\ xops = <<>>
    /\ xexc = <<>>
    /\ xtrace = <<>>

\* No run_clone invocation has started.
CloneInit ==
    /\ store = InitStore
    /\ tgt = InitStore["dev"]
    /\ pc = "idle"
    /\ req = NoRequest
    /\ srcConn = NoConn
    /\ targetConn = NoConn
    /\ srcUserId = None
    /\ targetUserId = None
    /\ userExists = FALSE
    /\ targetPassword = ""
    /\ table = 1
    /\ addtype = 1
    /\ dbOut = <<>>
    /\ targetAddrId = None
    /\ outcome = "none"
    /\ clones = 0
    /\ pre = InitStore
    /\ ops = <<>>
    /\ answer = "not_asked"
    /\ resolved = <<>>
    /\ written = {}
    /\ raisedAt = ""
    /\ srcCursor = "none"
    /\ targetCursor = "none"
    /\ devConn = "none"
    /\ opened = {}
    /\ connClosed = {}
    /\ caught = {}
    /\ exc = ""

Init == CloneInit /\ NoExtract

(***************************************************************************)
(* run_clone                                                               *)
(***************************************************************************)

\* The connections are closed whatever the mode.
ClosesConnectionsAlways == TRUE

\* Line 640: the connections are closed only in interactive mode.
ClosesConnections == req.interactive

\* Lines 634-648: the finally clause closes both cursors and, in interactive
\* mode, both connections; then run_clone is left and the variables of its
\* loops are gone.
Finally ==
    /\ srcCursor' = "closed"
    /\ targetCursor' = "closed"
    /\ connClosed' = IF ClosesConnections THEN {"source", "target"}
                     ELSE connClosed
    /\ table' = 1
    /\ addtype' = 1
    /\ dbOut' = <<>>
    /\ targetAddrId' = None
    /\ pc' = "returned"

\* The except clause without the rollback of the source connection.
RaisedNoSourceRollback(done, e) ==
    /\ tgt' = store[targetDb]
    /\ ops' = ops \o done \o << <<"rollback", "target">> >>
    /\ outcome' = "raised"
    /\ raisedAt' = pc
    /\ exc' = e
    /\ Finally
    /\ UNCHANGED << opened, store, req, srcConn, targetConn, srcUserId,
                    targetUserId, userExists, targetPassword, clones,
                    pre, answer, resolved, written >>

\* The except clause, entered with exception e after the statements `done`
\* were executed: srcConn.rollback(), targetConn.rollback(), then a bare
\* raise, which lets e leave run_clone through the finally clause.
Raised(done, e) ==
    /\ tgt' = store[targetDb]
    /\ ops' = ops \o done
                  \o << <<"rollback", "source">>, <<"rollback", "target">> >>
    /\ outcome' = "raised"
    /\ raisedAt' = pc
    /\ exc' = e
    /\ Finally
    /\ UNCHANGED << opened, store, req, srcConn, targetConn, srcUserId,
                    targetUserId, userExists, targetPassword, clones,
                    pre, answer, resolved, written >>

\* Lines 184-208 are outside the try statement: an exception raised while
\* a connection is being established leaves run_clone at once, with neither
\* the except nor the finally clause executed.
ConnectFailed ==
    /\ outcome' = "raised"
    /\ raisedAt' = pc
    /\ exc' = "OperationalError"
    /\ pc' = "returned"

\* Lines 177-195: the source side.  An active handle is used as it is; else
\* a connection is made from the profile, which may fail.  Then the cursor.
StartWith(r) ==
    /\ req' = r
    /\ pre' = store
    /\ \E connected \in BOOLEAN :
         /\ conn_info(SourceHandle(r)).is_active => connected
         /\ IF connected
            THEN /\ srcConn' = Connect(SourceHandle(r), r.source_profile)
                 /\ srcCursor' = "open"
                 /\ opened' = IF srcConn'.by = "run_clone"
                               THEN {"source"} ELSE {}
                 /\ pc' = "connect_target"
                 /\ UNCHANGED << outcome, raisedAt, exc >>
            ELSE /\ ConnectFailed
                 /\ UNCHANGED << srcConn, srcCursor, opened >>
    /\ UNCHANGED << store, tgt, targetConn, targetCursor, connClosed, handled,
                    locals, clones, ops, answer, resolved, written >>

\* A call of run_clone.
Start ==
    /\ pc = "idle"
    /\ clones < MaxClones
    /\ \E r \in Requests : StartWith(r)
    /\ UNCHANGED extract

\* Lines 197-208: the target side, in the same way.
ConnectTarget ==
    /\ pc = "connect_target"
    /\ \E connected \in BOOLEAN :
         /\ conn_info(TargetHandle(req)).is_active => connected
         /\ IF connected
            THEN /\ targetConn' = Connect(TargetHandle(req), req.target_profile)
                 /\ targetCursor' = "open"
                 /\ opened' = IF targetConn'.by = "run_clone"
                               THEN opened \cup {"target"} ELSE opened
                 /\ tgt' = store[targetConn'.db]
                 /\ pc' = "find_user"
                 /\ UNCHANGED << outcome, raisedAt, exc >>
            ELSE /\ ConnectFailed
                 /\ UNCHANGED << targetConn, targetCursor, opened, tgt >>
    /\ UNCHANGED << store, req, srcConn, srcCursor, connClosed, handled,
                    locals, clones, ops, answer, resolved, written, pre >>
    /\ UNCHANGED extract

\* The lookup with the emails compared as they are written.
userOutCaseSensitive ==
    {u.id : u \in {x \in store[srcDb].rows["app_user"] :
                      x.email = req.source_email}}

\* select id from app_user where lower(email)=lower(source_email)
userOut == {u.id : u \in {x \in store[srcDb].rows["app_user"] :
                              Lower(x.email) = Lower(req.source_email)}}

\* Lines 211-226: more than one id raises TypeError, none makes userOut[0]
\* raise IndexError.
FindUser ==
    /\ pc = "find_user"
    /\ IF Cardinality(userOut) # 1
       THEN /\ Raised(<<>>, IF Cardinality(userOut) > 1 THEN "TypeError"
                                                       ELSE "IndexError")
            /\ UNCHANGED handled
       ELSE /\ srcUserId' = CHOOSE id \in userOut : TRUE
            /\ pc' = "check_target"
            /\ UNCHANGED << cursors, handled, exc,
                            store, tgt, req, srcConn, targetConn, targetUserId,
                            userExists, targetPassword, table, addtype, dbOut,
                            targetAddrId, outcome, clones, history, ops,
                            raisedAt >>
    /\ UNCHANGED extract

\* Lines 228-239: select count(*) from app_user where id=srcUserId, on the
\* target.
CheckTarget ==
    /\ pc = "check_target"
    /\ userExists' = (\E u \in tgt.rows["app_user"] : u.id = srcUserId)
    /\ pc' = "policy"
    /\ UNCHANGED << cursors, handled, exc,
                    store, tgt, req, srcConn, targetConn, srcUserId,
                    targetUserId, targetPassword, table, addtype, dbOut,
                    targetAddrId, outcome, clones, history, ops, raisedAt >>
    /\ UNCHANGED extract

\* Whether the prompt of line 262 is shown: the conditions left of it hold
\* and the mode is interactive.
Asked ==
    /\ userExists
    /\ srcEnv # targetEnv
    /\ targetEnv # "prod"
    /\ req.interactive

\* The same condition with the production test left out.
OverwriteNoProdTest(confirmed) ==
    /\ srcEnv # targetEnv
    /\ (~req.interactive \/ (req.interactive /\ confirmed))

\* The same condition with non-interactive calls never overwriting.
OverwriteOnlyConfirmed(confirmed) ==
    /\ srcEnv # targetEnv
    /\ targetEnv # "prod"
    /\ req.interactive /\ confirmed

\* The same condition with the answer to the prompt ignored.
OverwriteIgnoresAnswer(confirmed) ==
    /\ srcEnv # targetEnv
    /\ targetEnv # "prod"

\* The condition of lines 260-266 for an existing target user.
Overwrite(confirmed) ==
    /\ srcEnv # targetEnv
    /\ targetEnv # "prod"
    /\ (~req.interactive \/ (req.interactive /\ confirmed))

\* Lines 242-277: the target identifier policy.
DecidePolicy ==
    /\ pc = "policy"
    /\ \E confirmed \in BOOLEAN :
         /\ ~Asked => confirmed
         /\ answer' = IF ~Asked THEN "not_asked"
                      ELSE IF confirmed THEN "yes" ELSE "no"
         /\ IF userExists
            THEN IF Overwrite(confirmed)
                 THEN /\ targetUserId' = srcUserId
                      /\ userExists' = userExists
                 ELSE /\ targetUserId' = None
                      /\ userExists' = FALSE
            ELSE /\ targetUserId' = srcUserId
                 /\ userExists' = userExists
    /\ pc' = "password"
    /\ UNCHANGED << cursors, handled, exc,
                    store, tgt, req, srcConn, targetConn, srcUserId,
                    targetPassword, table, addtype, dbOut, targetAddrId,
                    outcome, clones, pre, resolved, written, ops, raisedAt >>
    /\ UNCHANGED extract

\* Lines 283-295: the cursor the template password is read with.  The
\* branch taken depends on the profile names: the target cursor, the source
\* cursor, or the cursor of a connection made from 'getfoco_dev' for this
\* purpose (aux).  A SQLite connection has no get_dsn_parameters, which
\* raises.
PasswordSource ==
    IF ProfileSuffix(req.target_profile) = "dev"
    THEN [fails |-> targetLocal, aux |-> FALSE, db |-> targetDb,
          users |-> tgt.rows["app_user"]]
    ELSE IF ProfileSuffix(req.source_profile) = "dev"
    THEN [fails |-> srcLocal, aux |-> FALSE, db |-> srcDb,
          users |-> store[srcDb].rows["app_user"]]
    ELSE [fails |-> FALSE, aux |-> TRUE, db |-> "dev",
          users |-> store["dev"].rows["app_user"]]

\* The deletion phase entered with the template password not yet fetched.
GetPasswordDeferred ==
    /\ pc = "password"
    /\ pc' = "delete"
    /\ table' = 1
    /\ UNCHANGED << cursors, handled, exc, targetPassword,
                    store, tgt, req, srcConn, targetConn,
                    srcUserId, targetUserId, userExists, addtype,
                    dbOut, targetAddrId, outcome, clones, history,
                    ops, raisedAt >>
    /\ UNCHANGED extract

\* Lines 283-311: fetchone()[0] raises TypeError when the template account
\* does not exist in that store, which leaves the auxiliary connection
\* open.  After the fetch, devConn.close() closes the auxiliary connection;
\* when there is none the name devConn is unbound and the NameError is
\* handled by the bare except of lines 308-311.
GetPassword ==
    /\ pc = "password"
    /\ LET found == {u \in PasswordSource.users : u.email = passwordClone}
       IN  IF PasswordSource.fails
           THEN Raised(<<>>, "AttributeError") /\ UNCHANGED handled
           ELSE IF found = {}
           THEN /\ Raised(<<>>, "TypeError")
                /\ devConn' = IF PasswordSource.aux THEN "open" ELSE devConn
                /\ UNCHANGED caught
           ELSE /\ \E u \in found : targetPassword' = u.password
                /\ pc' = "delete"
                /\ table' = 1
                /\ IF PasswordSource.aux
                   THEN devConn' = "closed" /\ UNCHANGED caught
                   ELSE /\ caught' = caught \cup {<<"password", "NameError">>}
                        /\ UNCHANGED devConn
                /\ UNCHANGED << cursors, exc,
                                store, tgt, req, srcConn, targetConn,
                                srcUserId, targetUserId, userExists, addtype,
                                dbOut, targetAddrId, outcome, clones, history,
                                ops, raisedAt >>
    /\ UNCHANGED extract

\* The list walked as it is.
NotReversed(seq) == seq

\* reversed(tableList)
Reverse(seq) == [i \in 1..Len(seq) |-> seq[Len(seq) + 1 - i]]

\* The guard of line 333 without its test of userExists.
DeleteGuardNoExistsTest == ProfileSuffix(req.target_profile) # "prod"

\* The guard of line 333 without its profile test.
DeleteGuardNoProfileTest == userExists

\* Line 333: the deletion phase runs for an existing user unless the target
\* profile ends with 'prod'.
DeleteGuard == userExists /\ ProfileSuffix(req.target_profile) # "prod"

\* A commit that leaves the connection's writes uncommitted.
CommitNothing == store

\* targetConn.commit(): the connection's writes become the store's content.
Commit == [store EXCEPT ![targetDb] = tgt]

\* A DELETE that reaches the app_user table only.
DeletedRowsUserOnly(t) ==
    IF t = "app_user"
    THEN {r \in tgt.rows[t] : Owner(t, r) = targetUserId}
    ELSE {}

\* A DELETE without its where clause.
DeletedRowsAll(t) == tgt.rows[t]

\* delete from <table> where <idField>=targetUserId
DeletedRows(t) == {r \in tgt.rows[t] : Owner(t, r) = targetUserId}

\* Lines 335-351: one DELETE of the loop over reversed(tableList).
DeleteTable ==
    /\ pc = "delete"
    /\ DeleteGuard
    /\ LET t == Reverse(tableList)[table]
       IN  /\ tgt' = [tgt EXCEPT !.rows[t] = @ \ DeletedRows(t)]
           /\ ops' = Append(ops, <<"delete", t>>)
    /\ IF table = NTables
       THEN pc' = "delete_commit" /\ table' = table
       ELSE pc' = pc /\ table' = table + 1
    /\ UNCHANGED << cursors, handled, exc,
                    store, req, srcConn, targetConn, srcUserId, targetUserId,
                    userExists, targetPassword, addtype, dbOut, targetAddrId,
                    outcome, clones, history, raisedAt >>
    /\ UNCHANGED extract

\* Line 354: commit all deletions.
DeleteCommit ==
    /\ pc = "delete_commit"
    /\ store' = Commit
    /\ ops' = Append(ops, <<"commit", "">>)
    /\ pc' = "fetch"
    /\ table' = 1
    /\ UNCHANGED << cursors, handled, exc,
                    tgt, req, srcConn, targetConn, srcUserId, targetUserId,
                    userExists, targetPassword, addtype, dbOut, targetAddrId,
                    outcome, clones, history, raisedAt >>
    /\ UNCHANGED extract

\* Line 333 false: no deletion phase.
SkipDelete ==
    /\ pc = "delete"
    /\ ~DeleteGuard
    /\ pc' = "fetch"
    /\ table' = 1
    /\ UNCHANGED << cursors, handled, exc,
                    store, tgt, req, srcConn, targetConn, srcUserId,
                    targetUserId, userExists, targetPassword, addtype, dbOut,
                    targetAddrId, outcome, clones, history, ops, raisedAt >>
    /\ UNCHANGED extract

(***************************************************************************)
(* The copy loop                                                           *)
(***************************************************************************)

\* A fetched row: the columns of fieldList, that is all but 'id'.
Fields(t, r) ==
    IF t = "app_user"
    THEN [email |-> r.email, password |-> r.password,
          phone_number |-> r.phone_number, is_archived |-> r.is_archived,
          val |-> r.val]
    ELSE IF t = "app_address"
    THEN [user_id |-> r.user_id,
          eligibility_address_id |-> r.eligibility_address_id,
          mailing_address_id |-> r.mailing_address_id, val |-> r.val]
    ELSE [user_id |-> r.user_id, val |-> r.val]

\* select <fieldList> from <table> where <idField>=srcUserId, on the source.
FetchRows(t) ==
    LET rows == SortById({r \in store[srcDb].rows[t] : Owner(t, r) = srcUserId})
    IN  [i \in 1..Len(rows) |-> Fields(t, rows[i])]

\* The same transformation with is_archived forced for a production target
\* only.
TransformArchiveProdOnly(t, r) ==
    IF t = "app_user"
    THEN [r EXCEPT !.email = req.target_email,
                   !.password = targetPassword,
                   !.phone_number = "+13035551234",
                   !.is_archived = IF targetEnv = "prod" THEN TRUE ELSE @]
    ELSE IF targetUserId # srcUserId
    THEN [r EXCEPT !.user_id = targetUserId]
    ELSE r

\* Lines 411-436: the app_user row gets the target email, the template
\* password, the placeholder phone number and is_archived = True; the rows
\* of the other tables get the target user_id when it differs from the
\* source's.
Transform(t, r) ==
    IF t = "app_user"
    THEN [r EXCEPT !.email = req.target_email,
                   !.password = targetPassword,
                   !.phone_number = "+13035551234",
                   !.is_archived = TRUE]
    ELSE IF targetUserId # srcUserId
    THEN [r EXCEPT !.user_id = targetUserId]
    ELSE r

\* The value a column of the target holds after the insert of x: the
\* element conversion of the insert call, then the store's own typing.
Stored(x) == IF targetLocal THEN AdaptSqlite(x) ELSE PgColumn(AdaptPg(x))

\* The end of one iteration of the loop over tableList.
NextTable ==
    IF table = NTables
    THEN pc' = "commit" /\ table' = table
    ELSE pc' = "fetch" /\ table' = table + 1

\* The test of line 408 never true.
NoRowsNever(rows) == FALSE

\* Line 408: len(dbOut) == 0
NoRows(rows) == Len(rows) = 0

\* Lines 359-436: fetch and transform the rows of one table; no rows: skip.
FetchTable ==
    /\ pc = "fetch"
    /\ LET t == tableList[table]
           rows == FetchRows(t)
       IN  IF NoRows(rows)
           THEN /\ NextTable
                /\ UNCHANGED << cursors, handled, exc,
                                store, tgt, req, srcConn, targetConn,
                                srcUserId, targetUserId, userExists,
                                targetPassword, addtype, dbOut, targetAddrId,
                                outcome, clones, history, ops, raisedAt >>
           ELSE IF t \in {"app_user", "app_address"} /\ Len(rows) > 1
           THEN Raised(<<>>, "TypeError") /\ UNCHANGED handled
           ELSE /\ dbOut' = [i \in 1..Len(rows) |-> Transform(t, rows[i])]
                /\ pc' = IF t = "app_address" THEN "resolve" ELSE "insert"
                /\ addtype' = 1
                /\ UNCHANGED << cursors, handled, exc,
                                store, tgt, req, srcConn, targetConn,
                                srcUserId, targetUserId, userExists,
                                targetPassword, table, targetAddrId, outcome,
                                clones, history, ops, raisedAt >>
    /\ UNCHANGED extract

\* The reference keeps the identifier it had in the source.
UseAddressKeepsSource(id) ==
    /\ dbOut' = dbOut
    /\ IF addtype = Len(addtypes)
       THEN pc' = "insert" /\ addtype' = addtype
       ELSE pc' = "resolve" /\ addtype' = addtype + 1

\* Line 541 and the end of the loop over the two address references.
UseAddress(id) ==
    /\ dbOut' = [dbOut EXCEPT ![1][addtypes[addtype]] = id]
    /\ IF addtype = Len(addtypes)
       THEN pc' = "insert" /\ addtype' = addtype
       ELSE pc' = "resolve" /\ addtype' = addtype + 1

\* The lookup of line 472 never finds a row.
TargetAddressNeverFound(sha1Val) == {}

\* select id from app_addressrd where address_sha1=sha1Val, on the target.
TargetAddress(sha1Val) ==
    {b \in tgt.rows["app_addressrd"] : b.address_sha1 = sha1Val}

\* Lines 445-535: resolve one address reference.  The hash of the source
\* address is looked up in the target; a hit is used as it is, a miss
\* inserts a copy of the source row (committed by the next step).
ResolveAddress ==
    /\ pc = "resolve"
    /\ LET ref == dbOut[1][addtypes[addtype]]
           src == {a \in store[srcDb].rows["app_addressrd"] : a.id = ref}
       IN  IF src = {}
           THEN Raised(<<>>, "TypeError") /\ UNCHANGED handled
           ELSE \E a \in src :
                IF TargetAddress(a.address_sha1) # {}
                THEN \E b \in TargetAddress(a.address_sha1) :
                       /\ UseAddress(b.id)
                       /\ resolved' = Append(resolved,
                              [sha1 |-> a.address_sha1, id |-> b.id,
                               hit |-> TRUE])
                       /\ UNCHANGED << cursors, handled, exc,
                                       store, tgt, req, srcConn, targetConn,
                                       srcUserId, targetUserId, userExists,
                                       targetPassword, table, targetAddrId,
                                       outcome, clones, pre, answer, written,
                                       ops, raisedAt >>
                ELSE LET id == tgt.next["app_addressrd"]
                         row == [id |-> id, address_sha1 |-> a.address_sha1,
                                 val |-> Stored(a.val)]
                     IN  /\ tgt' = [tgt EXCEPT
                                      !.rows["app_addressrd"] = @ \cup {row},
                                      !.next["app_addressrd"] = id + 1]
                         /\ targetAddrId' = id
                         /\ ops' = Append(ops, <<"insert", "app_addressrd">>)
                         /\ pc' = "addr_commit"
                         /\ caught' = caught \cup {<<"resolve", "TypeError">>}
                         /\ UNCHANGED << cursors, devConn, exc,
                                         store, req, srcConn, targetConn,
                                         srcUserId, targetUserId, userExists,
                                         targetPassword, table, addtype, dbOut,
                                         outcome, clones, history, raisedAt >>
    /\ UNCHANGED extract

\* Lines 537-541: commit the address insert, then use its identifier.
AddrCommit ==
    /\ pc = "addr_commit"
    /\ store' = Commit
    /\ ops' = Append(ops, <<"commit", "">>)
    /\ UseAddress(targetAddrId)
    /\ resolved' = Append(resolved,
           [sha1 |-> (CHOOSE b \in tgt.rows["app_addressrd"] :
                          b.id = targetAddrId).address_sha1,
            id |-> targetAddrId, hit |-> FALSE])
    /\ UNCHANGED << cursors, handled, exc,
                    tgt, req, srcConn, targetConn, srcUserId, targetUserId,
                    userExists, targetPassword, table, targetAddrId, outcome,
                    clones, pre, answer, written, raisedAt >>
    /\ UNCHANGED extract

\* The rows an insert adds to table t: the given identifier for an explicit
\* id, else the identifiers the store assigns.
NewRows(t, explicit) ==
    {[id |-> IF explicit THEN targetUserId ELSE tgt.next[t] + i - 1]
        @@ [dbOut[i] EXCEPT !.val = Stored(@)] : i \in 1..Len(dbOut)}

InsertInto(t, explicit) ==
    /\ tgt' = [tgt EXCEPT
                 !.rows[t] = @ \cup NewRows(t, explicit),
                 !.next[t] = Max({@} \cup {r.id + 1 : r \in NewRows(t, explicit)})]
    /\ written' = written \cup {<<t, r>> : r \in NewRows(t, explicit)}

\* Lines 543-612: insert the rows of one table.  The app_user row is
\* inserted under targetUserId when that is known (a duplicate primary key
\* raises); else the store assigns the identifier, which Postgres returns
\* (RETURNING "id") while on SQLite fetchone() gives None and the subscript
\* of line 612 raises TypeError.
InsertTable ==
    /\ pc = "insert"
    /\ LET t == tableList[table]
       IN  IF idField(t) = "id" /\ targetUserId # None
           THEN IF \E u \in tgt.rows[t] : u.id = targetUserId
                THEN Raised(<<>>, "IntegrityError") /\ UNCHANGED handled
                ELSE /\ InsertInto(t, TRUE)
                     /\ ops' = Append(ops, <<"insert", t>>)
                     /\ NextTable
                     /\ UNCHANGED << cursors, handled, exc,
                                     store, req, srcConn, targetConn,
                                     srcUserId, targetUserId, userExists,
                                     targetPassword, addtype, dbOut,
                                     targetAddrId, outcome, clones, pre,
                                     answer, resolved, raisedAt >>
           ELSE IF idField(t) = "id" /\ targetLocal
           THEN /\ Raised(<< <<"insert", t>> >>, "TypeError")
                /\ UNCHANGED handled
           ELSE /\ InsertInto(t, FALSE)
                /\ ops' = Append(ops, <<"insert", t>>)
                /\ targetUserId' = IF idField(t) = "id" THEN tgt.next[t]
                                   ELSE targetUserId
                /\ NextTable
                /\ UNCHANGED << cursors, handled, exc,
                                store, req, srcConn, targetConn, srcUserId,
                                userExists, targetPassword, addtype, dbOut,
                                targetAddrId, outcome, clones, pre, answer,
                                resolved, raisedAt >>
    /\ UNCHANGED extract

\* Lines 620-648: the commit of the final inserts, then the finally clause.
FinalCommit ==
    /\ pc = "commit"
    /\ store' = Commit
    /\ ops' = Append(ops, <<"commit", "">>)
    /\ outcome' = "ok"
    /\ Finally
    /\ UNCHANGED << opened, handled, exc,
                    tgt, req, srcConn, targetConn, srcUserId, targetUserId,
                    userExists, targetPassword, clones, history,
                    raisedAt >>
    /\ UNCHANGED extract

\* The positions at which a statement is executed inside the try block.
InTry ==
    \/ pc \in {"find_user", "check_target", "policy", "password",
               "delete_commit", "fetch", "resolve", "addr_commit", "insert"}
    \/ pc = "delete" /\ DeleteGuard

\* Any statement sent to a store may raise (connection lost, constraint of
\* the schema violated): lines 614-618 roll back and raise again.  When the
\* statement is the password query of line 304 on the auxiliary connection,
\* that connection was made at line 294 and nothing closes it.
StatementFails ==
    /\ InTry
    /\ Raised(<<>>, "DatabaseError")
    /\ \E d \in {devConn} \cup (IF pc = "password" /\ PasswordSource.aux
                                 THEN {"open"} ELSE {}) : devConn' = d
    /\ UNCHANGED caught
    /\ UNCHANGED extract

\* The caller goes on; the next invocation starts from the stores as left.
Return ==
    /\ pc = "returned"
    /\ pc' = "idle"
    /\ clones' = clones + 1
    /\ req' = NoRequest
    /\ srcConn' = NoConn
    /\ targetConn' = NoConn
    /\ tgt' = InitStore["dev"]
    /\ srcUserId' = None
    /\ targetUserId' = None
    /\ userExists' = FALSE
    /\ targetPassword' = ""
    /\ table' = 1
    /\ addtype' = 1
    /\ dbOut' = <<>>
    /\ targetAddrId' = None
    /\ outcome' = "none"
    /\ pre' = InitStore
    /\ ops' = <<>>
    /\ answer' = "not_asked"
    /\ resolved' = <<>>
    /\ written' = {}
    /\ raisedAt' = ""
    /\ srcCursor' = "none"
    /\ targetCursor' = "none"
    /\ devConn' = "none"
    /\ opened' = {}
    /\ connClosed' = {}
    /\ caught' = {}
    /\ exc' = ""
    /\ UNCHANGED store
    /\ UNCHANGED extract

Next ==
    \/ Start
    \/ ConnectTarget
    \/ FindUser
    \/ CheckTarget
    \/ DecidePolicy
    \/ GetPassword
    \/ DeleteTable
    \/ DeleteCommit
    \/ SkipDelete
    \/ FetchTable
    \/ ResolveAddress
    \/ AddrCommit
    \/ InsertTable
    \/ FinalCommit
    \/ StatementFails
    \/ Return

Spec == Init /\ [][Next]_vars

(***************************************************************************)
(* The reporting subsystem: Extract                                        *)
(***************************************************************************)

\* An exception leaves the construction: line 254 closes the connection,
\* which discards what was not committed.
XRaise(e) ==
    /\ xexc' = <<xpc, e>>
    /\ xpc' = "raised"
    /\ xview' = flags

\* Lines 234-248: the export chosen by export_type.
XStart ==
    /\ xpc = "idle"
    /\ \E r \in XRequests :
         /\ xreq' = r
         /\ xpc' = CASE r.export_type = "ALL" -> "global"
                     [] r.export_type = "INCOME" -> "income"
                     [] r.export_type = "PROGRAM" -> "programs"
         /\ xtrace' = IF r.export_type = "ALL" THEN <<"run_all">> ELSE <<>>
    /\ UNCHANGED << content, flags, xview, xprog, allAffectedUsers, dfBound,
                    files, xops, xexc >>
    /\ UNCHANGED clone

\* Lines 494-594: one query, one file (save_file is the parameter's default
\* here, not the kwarg).
ExportGlobal ==
    /\ xpc = "global"
    /\ xtrace' = Append(xtrace, "export_global")
    /\ files' = files \cup {<<"All", Users>>}
    /\ xpc' = "income"
    /\ UNCHANGED << content, flags, xview, xreq, xprog, allAffectedUsers,
                    dfBound, xops, xexc >>
    /\ UNCHANGED clone

\* The operation run_all or the construction goes on with after op.
After(op) ==
    IF xreq.export_type # "ALL" THEN "done"
    ELSE IF op = "export_income" THEN "programs" ELSE "feedback"

\* Lines 596-852.  df is assigned only inside 'if len(dbInitOut)>0', so with
\* no matching applicant return(df) raises UnboundLocalError; with matches
\* that the identification_path filter all removes, _convert_extract reads
\* db_output[0] of an empty list.  Else the extract is written (save_file),
\* the user files are downloaded and export_global and export_feedback write
\* into user_files_dir.
ExportIncome ==
    /\ xpc = "income"
    /\ xtrace' = Append(xtrace, "export_income")
    /\ IF content.income.matched = {}
       THEN /\ XRaise("UnboundLocalError")
            /\ UNCHANGED files
       ELSE IF content.income.kept = {}
       THEN /\ XRaise("IndexError")
            /\ UNCHANGED files
       ELSE /\ files' = files
                  \cup (IF xreq.save_file
                        THEN {<<"Income Verification", content.income.kept>>}
                        ELSE {})
                  \cup {<<"user files: All", Users>>,
                        <<"user files: IQ Feedback", {}>>}
            /\ xpc' = After("export_income")
            /\ UNCHANGED << xview, xexc >>
    /\ UNCHANGED << content, flags, xreq, xprog, allAffectedUsers, dfBound,
                    xops >>
    /\ UNCHANGED clone

\* Lines 918-954: the renewal query, for 'grocery' only.
renewalOut(program) ==
    IF program = "grocery"
    THEN {u \in Users : content.status[program][u] = "renewal"}
    ELSE {}

\* Lines 967-994: the applicants with is_enrolled false not yet processed.
newOut(program, processed) ==
    {u \in Users : content.status[program][u] \in {"new", "renewal"}}
        \ processed

\* The tables whose is_updated the update query tests: those of fieldsToUse
\* (lines 893-901, 1012).
FieldTables(program) ==
    IF program = "spin" THEN {"app_user"}
    ELSE {"app_user", "app_address", "app_householdmembers"}

\* Lines 1005-1018: the enrolled users with a flag set, not yet processed.
updateOut(program, processed) ==
    {u \in Users :
        /\ content.status[program][u] = "enrolled"
        /\ \E t \in FieldTables(program) : <<t, u>> \in xview} \ processed

\* Lines 1022-1029: _mark_updates and the filter on updatedBools keep the
\* users with an update that is one.
updateList(program, processed) ==
    {u \in updateOut(program, processed) :
        \E t \in FieldTables(program) :
            <<t, u>> \in xview /\ <<t, u>> \notin Spurious}

\* Lines 882-1150: one iteration of the loop over active_programs.  With no
\* renewal and no new applicant the update query ends in 'not in ()', which
\* Postgres rejects.  Else the rows are not empty: df is assigned, and with
\* save_file the extract is written and its users are added to
\* allAffectedUsers.
ExportProgram ==
    /\ xpc = "programs"
    /\ xprog <= NPrograms
    /\ xtrace' = IF xprog = 1 THEN Append(xtrace, "export_programs")
                 ELSE xtrace
    /\ LET program == active_programs[xprog]
           renewals == renewalOut(program)
           processed == renewals \cup newOut(program, renewals)
           out == processed \cup updateList(program, processed)
       IN  IF processed = {}
           THEN /\ XRaise("SyntaxError")
                /\ UNCHANGED << xprog, dfBound, files, allAffectedUsers >>
           ELSE /\ dfBound' = TRUE
                /\ files' = IF xreq.save_file
                            THEN files \cup {<<program, out>>} ELSE files
                /\ allAffectedUsers' =
                       IF xreq.save_file THEN allAffectedUsers \cup out
                       ELSE allAffectedUsers
                /\ xprog' = xprog + 1
                /\ xpc' = IF xprog = NPrograms THEN "reset" ELSE "programs"
                /\ UNCHANGED << xview, xexc >>
    /\ UNCHANGED << content, flags, xreq, xops >>
    /\ UNCHANGED clone

\* The reset done whatever the kwargs and the extracts written.
ResetGuardAlways == TRUE

\* Line 1154
ResetGuard ==
    xreq.reset_updates /\ xreq.save_file /\ allAffectedUsers # {}

\* An UPDATE without its where clause.
ResetRowsAll(t) == {<<t, u>> : u \in Users}

\* update public.<tbl> set is_updated=false where <id> in (allAffectedUsers)
ResetRows(t) == {<<t, u>> : u \in allAffectedUsers}

\* Lines 1161-1174: one UPDATE for every table of hist_tables.
ResetUpdates ==
    /\ xpc = "reset"
    /\ ResetGuard
    /\ xview' = xview \ UNION {ResetRows(hist_tables[i]) :
                                   i \in 1..Len(hist_tables)}
    /\ xops' = xops \o [i \in 1..Len(hist_tables) |->
                           <<"update", hist_tables[i]>>]
    /\ xpc' = "reset_commit"
    /\ UNCHANGED << content, flags, xreq, xprog, allAffectedUsers, dfBound,
                    files, xexc, xtrace >>
    /\ UNCHANGED clone

\* Line 1176: self.getfoco.conn.commit()
CommitReset ==
    /\ xpc = "reset_commit"
    /\ flags' = xview
    /\ xops' = Append(xops, <<"commit", "">>)
    /\ xpc' = "return"
    /\ UNCHANGED << content, xview, xreq, xprog, allAffectedUsers, dfBound,
                    files, xexc, xtrace >>
    /\ UNCHANGED clone

\* Lines 1178-1179: nothing is reset.
SkipReset ==
    /\ xpc = "reset"
    /\ ~ResetGuard
    /\ xpc' = "return"
    /\ UNCHANGED << content, flags, xview, xreq, xprog, allAffectedUsers,
                    dfBound, files, xops, xexc, xtrace >>
    /\ UNCHANGED clone

\* Lines 1181-1183: return(df), which is unbound when no iteration of the
\* loop assigned it.
ReturnPrograms ==
    /\ xpc = "return"
    /\ IF dfBound
       THEN xpc' = After("export_programs") /\ UNCHANGED << xview, xexc >>
       ELSE XRaise("UnboundLocalError")
    /\ UNCHANGED << content, flags, xreq, xprog, allAffectedUsers, dfBound,
                    files, xops, xtrace >>
    /\ UNCHANGED clone

\* Lines 1429-1505: one query, one file.
ExportFeedback ==
    /\ xpc = "feedback"
    /\ xtrace' = Append(xtrace, "export_feedback")
    /\ files' = files \cup {<<"IQ Feedback", {}>>}
    /\ xpc' = "done"
    /\ UNCHANGED << content, flags, xview, xreq, xprog, allAffectedUsers,
                    dfBound, xops, xexc >>
    /\ UNCHANGED clone

\* The positions at which a statement is sent to the database.
XQuerying ==
    \/ xpc \in {"global", "income", "programs", "reset_commit", "feedback"}
    \/ xpc = "reset" /\ ResetGuard

\* Any statement sent to the database may raise.
XQueryFails ==
    /\ XQuerying
    /\ XRaise("DatabaseError")
    /\ UNCHANGED << content, flags, xreq, xprog, allAffectedUsers, dfBound,
                    files, xops, xtrace >>
    /\ UNCHANGED clone

\* An Extract is constructed on a database of Contents.
ExtractInit ==
    /\ CloneInit
    /\ content \in Contents
    /\ flags = content.flags
    /\ xview = content.flags
    /\ xreq = NoXRequest
    /\ xpc = "idle"
    /\ xprog = 1
    /\ allAffectedUsers = {}
    /\ dfBound = FALSE
    /\ files = {}
    /\ xops = <<>>
    /\ xexc = <<>>
    /\ xtrace = <<>>

ExtractNext ==
    \/ XStart
    \/ ExportGlobal
    \/ ExportIncome
    \/ ExportProgram
    \/ ResetUpdates
    \/ CommitReset
    \/ SkipReset
    \/ ReturnPrograms
    \/ ExportFeedback
    \/ XQueryFails

ExtractSpec == ExtractInit /\ [][ExtractNext]_vars

(***************************************************************************)
(* Properties                                                              *)
(***************************************************************************)

\* Shorthands for the history of the current invocation.
Issued(kind) == {i \in 1..Len(ops) : ops[i][1] = kind}

\* The invocation is past the call of run_clone (it runs or has returned).
Called == pc \notin {"idle", "connect_target"} /\ targetConn # NoConn

\* The rows the target held for identifier id in table t when the call began.
Before(t, id) == {r \in pre[targetDb].rows[t] : Owner(t, r) = id}

\* An app_user row with the source user's id was in the target at the call.
Existed == srcUserId # None /\ Before("app_user", srcUserId) # {}

\* The rows the target held for the source id are all still there.
Untouched ==
    \A i \in 1..NTables :
        /\ Before(tableList[i], srcUserId) \subseteq tgt.rows[tableList[i]]
        /\ Before(tableList[i], srcUserId)
               \subseteq store[targetDb].rows[tableList[i]]

\* The positions of the copy loop (fetch, transform, insert of a table).
CopyLoop == {"fetch", "resolve", "addr_commit", "insert"}

\* C1: if an exception is raised while run_clone is in its per-table copy
\* loop, then once it has returned no row inserted by that loop (the
\* app_user row or a dependent row) is committed in the target store; only
\* an app_addressrd row may remain.
C1_NoPartialCommit ==
    (pc = "returned" /\ outcome = "raised" /\ raisedAt \in CopyLoop)
        => \A w \in written : w[2] \notin store[targetDb].rows[w[1]]

\* The target is production-class: its connection reports 'prod', or the
\* target profile ends with 'prod'.
ProdClassTarget ==
    targetEnv = "prod" \/ ProfileSuffix(req.target_profile) = "prod"

\* C2: when the target is production-class, run_clone issues no DELETE
\* against it, whatever the interactive flag, the answer and the profiles:
\* the app_user row with the source id and its dependent rows stay.
C2_NoDeleteOnProd ==
    (Called /\ ProdClassTarget) => (Issued("delete") = {} /\ Untouched)

C2_Witness ==
    /\ pc = "returned" /\ outcome = "ok"
    /\ ProdClassTarget
    /\ Existed
    /\ Issued("insert") # {}

\* The copy loop is about to start: the policy was decided and the deletion
\* phase is over.
PolicyApplied == pc = "fetch" /\ table = 1

\* The overwrite case of the policy, from the environments of the two
\* connections, the mode and the answer given at the prompt.
OverwriteCase ==
    /\ Existed
    /\ srcEnv # targetEnv
    /\ targetEnv # "prod"
    /\ (~req.interactive \/ answer = "yes")

\* The rows the target held for the source id were deleted, and the
\* deletion is committed.
Deleted ==
    /\ Issued("delete") # {}
    /\ \A i \in 1..NTables :
         /\ Before(tableList[i], srcUserId) \cap tgt.rows[tableList[i]] = {}
         /\ Before(tableList[i], srcUserId)
                \cap store[targetDb].rows[tableList[i]] = {}

\* C3 as stated: (1) no app_user row with the source id in the target:
\* target id = source id, nothing deleted; (2) such a row exists, the
\* environments differ, the target environment is not 'prod' and the call is
\* non-interactive or confirmed: target id = source id and the existing rows
\* are deleted first; (3) otherwise the target id is None until the app_user
\* insert and nothing is deleted.
C3_PolicyAsStated ==
    PolicyApplied =>
        /\ ~Existed => (targetUserId = srcUserId /\ Issued("delete") = {})
        /\ OverwriteCase => (targetUserId = srcUserId /\ Deleted)
        /\ (Existed /\ ~OverwriteCase) =>
               (targetUserId = None /\ Issued("delete") = {} /\ Untouched)

\* C3 amended: as stated, except that in case (2) the existing rows are
\* deleted only when target_profile does not end with 'prod'; when it does,
\* the target id is still the source id but nothing is deleted.
C3_PolicyAmended ==
    PolicyApplied =>
        /\ ~Existed => (targetUserId = srcUserId /\ Issued("delete") = {})
        /\ OverwriteCase =>
               /\ targetUserId = srcUserId
               /\ IF ProfileSuffix(req.target_profile) # "prod"
                  THEN Deleted
                  ELSE Issued("delete") = {} /\ Untouched
        /\ (Existed /\ ~OverwriteCase) =>
               (targetUserId = None /\ Issued("delete") = {} /\ Untouched)

C3_Witness ==
    /\ PolicyApplied
    /\ OverwriteCase
    /\ ProfileSuffix(req.target_profile) # "prod"
    /\ Deleted
    /\ \E i \in 2..NTables : Before(tableList[i], srcUserId) # {}

\* The policy was decided and the deletion phase is over (the copy loop is
\* running, or the call ended in it or after it).
PastDeletion ==
    \/ pc \in CopyLoop \cup {"commit"}
    \/ pc = "returned"
          /\ (outcome = "ok" \/ raisedAt \in CopyLoop)

\* C4 as stated: with interactive=False and an app_user row with the source
\* id in the target, run_clone does not overwrite: the identifier it uses
\* is not the source id and the rows of the existing user are untouched.
C4_NonInteractiveNeverOverwrites ==
    (PastDeletion /\ ~req.interactive /\ Existed)
        => (targetUserId # srcUserId /\ Issued("delete") = {} /\ Untouched)

\* C4 amended: with interactive=False and an app_user row with the source
\* id in the target, run_clone keeps the existing rows and uses an
\* identifier other than the source id only when the two environments are
\* equal or the target environment is 'prod'; in every other case it
\* overwrites without asking: the target id is the source id and the
\* existing rows are deleted (unless target_profile ends with 'prod').
C4_NonInteractiveAmended ==
    (PastDeletion /\ ~req.interactive /\ Existed)
        => /\ answer = "not_asked"
           /\ IF srcEnv = targetEnv \/ targetEnv = "prod"
              THEN /\ targetUserId # srcUserId
                   /\ Issued("delete") = {}
                   /\ Untouched
              ELSE /\ targetUserId = srcUserId
                   /\ ProfileSuffix(req.target_profile) # "prod" => Deleted

C4_Witness ==
    /\ pc = "returned" /\ outcome = "ok"
    /\ ~req.interactive /\ Existed
    /\ srcEnv = targetEnv
    /\ targetUserId \notin {None, srcUserId}
    /\ \E u \in store[targetDb].rows["app_user"] : u.id = targetUserId

\* C5 as stated: in interactive mode, when the operator declines the
\* overwrite, the clone raises a cancellation and ends without an insert, a
\* delete or a commit on the target.
C5_DeclineCancels ==
    (pc = "returned" /\ answer = "no")
        => /\ outcome = "raised"
           /\ Issued("insert") = {}
           /\ Issued("delete") = {}
           /\ Issued("commit") = {}

\* C5 amended: when the operator declines the overwrite, no cancellation is
\* raised at the prompt and no DELETE is executed on the target: the clone
\* goes on as a new-identity clone (target id None until the app_user
\* insert, the existing rows untouched), inserting and committing as usual.
C5_DeclineNewIdentity ==
    answer = "no"
        => /\ raisedAt # "policy"
           /\ Issued("delete") = {}
           /\ Untouched
           /\ ~userExists
           /\ targetUserId # srcUserId
           /\ (Issued("insert") = {}) => targetUserId = None

C5_Witness ==
    /\ pc = "returned" /\ outcome = "ok"
    /\ answer = "no"
    /\ Issued("insert") # {}
    /\ Issued("commit") # {}

\* No two rows of an app_addressrd table share an address_sha1.
UniqueHash(rows) ==
    \A a \in rows : \A b \in rows : a.address_sha1 = b.address_sha1 => a = b

\* C6: starting from address tables with pairwise distinct hashes, after any
\* sequence of invocations (also failing ones, also a user whose two
\* references point to one address) no two app_addressrd rows of a store
\* share an address_sha1, and source addresses with different hashes are
\* mapped to different target identifiers.
C6_HashStaysUnique ==
    /\ \A d \in DBs : UniqueHash(store[d].rows["app_addressrd"])
    /\ UniqueHash(tgt.rows["app_addressrd"])
    /\ \A i \in 1..Len(resolved) : \A j \in 1..Len(resolved) :
         resolved[i].sha1 # resolved[j].sha1 => resolved[i].id # resolved[j].id

C6_Witness ==
    /\ pc = "returned" /\ outcome = "ok"
    /\ clones = 1
    /\ Len(resolved) = 2
    /\ resolved[1].sha1 # resolved[2].sha1
    /\ ~resolved[1].hit
    /\ resolved[2].hit

\* The reference being resolved points to a source address whose hash is
\* already in the target's app_addressrd table.
HashInTarget ==
    /\ pc = "resolve"
    /\ \E a \in store[srcDb].rows["app_addressrd"] :
         /\ a.id = dbOut[1][addtypes[addtype]]
         /\ \E b \in tgt.rows["app_addressrd"] : b.address_sha1 = a.address_sha1

\* C7: when the target already holds an app_addressrd row with the hash of
\* the referenced source address, the resolution writes that row's id into
\* the reference field and performs no insert and no commit; resolving the
\* same hash again gives the same id, and no address row of a store is ever
\* removed or changed, so a later clone finds the same row.
C7_ExistingAddressReused ==
    [][ /\ (HashInTarget /\ outcome' # "raised") =>
             /\ tgt' = tgt /\ store' = store /\ ops' = ops
             /\ \E a \in store[srcDb].rows["app_addressrd"] :
                  /\ a.id = dbOut[1][addtypes[addtype]]
                  /\ \E b \in tgt.rows["app_addressrd"] :
                       /\ b.address_sha1 = a.address_sha1
                       /\ dbOut'[1][addtypes[addtype]] = b.id
                       /\ resolved' = Append(resolved,
                              [sha1 |-> a.address_sha1, id |-> b.id,
                               hit |-> TRUE])
             /\ \A i \in 1..Len(resolved') : \A j \in 1..Len(resolved') :
                  resolved'[i].sha1 = resolved'[j].sha1
                      => resolved'[i].id = resolved'[j].id
        /\ \A d \in DBs : store[d].rows["app_addressrd"]
                              \subseteq store'[d].rows["app_addressrd"]
      ]_vars

C7_Witness ==
    /\ pc = "insert"
    /\ tableList[table] = "app_address"
    /\ Len(resolved) = 2
    /\ resolved[1].sha1 = resolved[2].sha1
    /\ ~resolved[1].hit
    /\ resolved[2].hit
    /\ dbOut[1].eligibility_address_id = resolved[1].id
    /\ dbOut[1].mailing_address_id = resolved[1].id

\* Statement i of the invocation is preceded by statement s.
Preceded(i, s) == \E j \in 1..(i - 1) : ops[j] = s

\* C8: every row the clone has written to a dependent table has a user_id
\* that is the id of an app_user row present in the target (in the
\* connection's view, and in the committed store once the row is committed);
\* app_user is inserted first and deleted last.
C8_OwnerExistsFirst ==
    /\ \A w \in written :
         w[1] # "app_user" =>
            /\ w[2] \in tgt.rows[w[1]]
                 => \E u \in tgt.rows["app_user"] : u.id = w[2].user_id
            /\ w[2] \in store[targetDb].rows[w[1]]
                 => \E u \in store[targetDb].rows["app_user"] :
                        u.id = w[2].user_id
    /\ \A i \in Issued("insert") :
         ops[i][2] \in DependentTables => Preceded(i, <<"insert", "app_user">>)
    /\ \A i \in Issued("delete") :
         ops[i][2] = "app_user"
             => \A t \in DependentTables : Preceded(i, <<"delete", t>>)

C8_Witness ==
    /\ pc = "returned" /\ outcome = "ok"
    /\ targetUserId # srcUserId
    /\ \E w \in written :
         /\ w[1] # "app_user"
         /\ w[2].user_id = targetUserId
         /\ w[2] \in store[targetDb].rows[w[1]]

\* An overwrite clone that returned normally.
SuccessfulOverwrite ==
    /\ pc = "returned" /\ outcome = "ok"
    /\ Existed
    /\ targetUserId = srcUserId
    /\ Issued("delete") # {}

\* The rows of table t the source holds for the source user and the target
\* for the target identifier agree, row by row in id order, on the columns
\* other than id, email, password, phone_number, is_archived and the two
\* address ids; Same compares the values of a column.
SameRows(t, Same(_, _)) ==
    LET S == SortById({r \in store[srcDb].rows[t] : Owner(t, r) = srcUserId})
        T == SortById({r \in store[targetDb].rows[t] :
                           Owner(t, r) = targetUserId})
    IN  /\ Len(S) = Len(T)
        /\ \A i \in 1..Len(S) :
             /\ Same(S[i].val, T[i].val)
             /\ t # "app_user" => S[i].user_id = T[i].user_id

\* None of the rows the target held for the identifier before the call is
\* left in any table of tableList.
NoOldRows ==
    \A i \in 1..NTables :
        Before(tableList[i], srcUserId)
            \cap store[targetDb].rows[tableList[i]] = {}

Number(v) == IF v[1] = "int" THEN <<v[2], 0>> ELSE <<v[2], v[3]>>

\* Equal up to the representation the target store has for the value: a
\* dict and its JSON text, a Decimal and the int or nearest float.
SameUpToStorage(v, w) ==
    \/ v = w
    \/ {v[1], w[1]} = {"dict", "json"} /\ v[2] = w[2]
    \/ /\ {v[1], w[1]} \subseteq {"Decimal", "int", "float"}
       /\ Number(v) = Number(w)

NamedSource ==
    IF req.source_conn # NoConn /\ ~req.source_conn.closed
    THEN req.source_conn.db ELSE ProfileSuffix(req.source_profile)

NamedTarget ==
    IF req.target_conn # NoConn /\ ~req.target_conn.closed
    THEN req.target_conn.db ELSE ProfileSuffix(req.target_profile)

\* C10: on every path, when source and target are different stores the
\* content of the source store during and after the call is what it was
\* before the call.
C10_SourceUnchanged ==
    (Called /\ NamedSource # NamedTarget)
        => store[NamedSource] = pre[NamedSource]

C10_Witness ==
    /\ pc = "returned" /\ outcome = "ok"
    /\ NamedSource # NamedTarget
    /\ srcDb = NamedSource
    /\ store[targetDb] # pre[targetDb]
    /\ Issued("delete") # {}

\* C11: the password written to the cloned app_user row is the password
\* hash of the template account (email = PASSWORD_CLONE_ACCOUNT) as held by
\* a dev-class store, whichever connections and profiles the call is given.
C11_PasswordFromDevTemplate ==
    \A w \in written :
        w[1] = "app_user" =>
            \E u \in store["dev"].rows["app_user"] :
                u.email = passwordClone /\ w[2].password = u.password

\* The app_user rows of the source whose email equals source_email up to
\* case, when the call began.
UserMatches ==
    {x \in pre[srcDb].rows["app_user"] :
         Lower(x.email) = Lower(req.source_email)}

\* C12: the source user is found by case-insensitive email match; with
\* exactly one match its id is used, and with zero or several matches
\* run_clone raises at the lookup and returns with no insert, delete or
\* commit executed on the target, whose content is unchanged.
C12_UserLookup ==
    (Called /\ pc # "find_user") =>
        IF Cardinality(UserMatches) = 1
        THEN IF raisedAt = "find_user"
             THEN exc = "DatabaseError"
             ELSE \E x \in UserMatches : srcUserId = x.id
        ELSE /\ pc = "returned" /\ outcome = "raised"
             /\ raisedAt = "find_user"
             /\ Issued("insert") = {} /\ Issued("delete") = {}
             /\ Issued("commit") = {}
             /\ store = pre

C12_Witness ==
    /\ pc = "returned" /\ outcome = "raised"
    /\ raisedAt = "find_user" /\ exc = "TypeError"
    /\ Cardinality(UserMatches) > 1
    /\ \E x \in UserMatches : x.email # req.source_email
    /\ clones = 1

\* The exceptions the statements of a position of the try block raise.
ExceptionsAt(p) ==
    {"DatabaseError"} \cup
    CASE p = "find_user" -> {"TypeError", "IndexError"}
      [] p = "password" -> {"AttributeError", "TypeError"}
      [] p = "fetch" -> {"TypeError"}
      [] p = "resolve" -> {"TypeError"}
      [] p = "insert" -> {"IntegrityError", "TypeError"}
      [] OTHER -> {}

\* An exception left the try block of the invocation.
RaisedInTry ==
    outcome = "raised" /\ raisedAt \notin {"", "idle", "connect_target"}

\* The last two statements were the rollbacks of both connections, the
\* target's uncommitted writes are gone, and the exception raised at the
\* position is the one that left run_clone.
RolledBackAndReraised ==
    /\ pc = "returned"
    /\ Len(ops) >= 2
    /\ ops[Len(ops) - 1] = <<"rollback", "source">>
    /\ ops[Len(ops)] = <<"rollback", "target">>
    /\ tgt = store[targetDb]
    /\ exc \in ExceptionsAt(raisedAt)

\* The no-rows cases: fetchone() gives None for a hash the target does not
\* hold, and the subscript raises TypeError (lines 473-475).
NoRowsCases == {<<"resolve", "TypeError">>}

\* C13 as stated: every exception raised once both cursors exist is followed
\* by the rollback of both connections and leaves run_clone unchanged; no
\* exception is handled inside run_clone but the no-rows case of a table.
C13_RollbackReraiseNoneSwallowed ==
    /\ RaisedInTry => RolledBackAndReraised
    /\ outcome # "raised" => exc = ""
    /\ caught \subseteq NoRowsCases

\* C13 amended: the same, with one more exception handled inside run_clone:
\* the NameError of devConn.close() when the template password was read
\* through the source or the target cursor and no auxiliary connection
\* exists (lines 307-311).
C13_RollbackReraise ==
    /\ RaisedInTry => RolledBackAndReraised
    /\ outcome # "raised" => exc = ""
    /\ caught \subseteq NoRowsCases \cup {<<"password", "NameError">>}
    /\ <<"password", "NameError">> \in caught => ~PasswordSource.aux

C13_Witness ==
    /\ RaisedInTry
    /\ raisedAt = "resolve" /\ exc = "DatabaseError"
    /\ caught = {<<"resolve", "TypeError">>, <<"password", "NameError">>}
    /\ Issued("insert") # {}
    /\ Issued("commit") # {}

\* The commits issued after the insert of the app_user row.
CommitsAfterInsert ==
    {i \in Issued("commit") : Preceded(i, <<"insert", "app_user">>)}

\* C14: the rows inserted by the copy loop are committed at one commit
\* point, after the last table of tableList: while the loop runs none of
\* them is in the committed target store, and a successful call has
\* committed them all with exactly one commit.
C14_SingleCommitPoint ==
    /\ pc \in CopyLoop \cup {"commit"}
         => \A w \in written : w[2] \notin store[targetDb].rows[w[1]]
    /\ (pc = "returned" /\ outcome = "ok")
         => /\ \A w \in written : w[2] \in store[targetDb].rows[w[1]]
            /\ Cardinality(CommitsAfterInsert) = 1

\* The connection and the handle of a side.
ConnOf(side) == IF side = "source" THEN srcConn ELSE targetConn

HandleOf(side) == IF side = "source" THEN req.source_conn ELSE req.target_conn

Sides == {"source", "target"}

\* C15: on every exit path of run_clone (success or exception) the source
\* and target connections are closed if and only if interactive is True.
C15_ClosedIffInteractive ==
    pc = "returned" =>
        \A side \in Sides :
            ConnOf(side) # NoConn => (side \in connClosed <=> req.interactive)

\* C16 as stated: active handles passed by the caller are open when
\* run_clone returns, for every value of interactive, on success and failure.
C16_HandlesLeftOpen ==
    pc = "returned" =>
        \A side \in Sides :
            conn_info(HandleOf(side)).is_active => side \notin connClosed

\* C16 amended: active handles passed by the caller are open when run_clone
\* returns if interactive is False, on success and failure; if interactive
\* is True the finally clause closes them.
C16_HandlesLeftOpenIfNotInteractive ==
    pc = "returned" =>
        \A side \in Sides :
            conn_info(HandleOf(side)).is_active =>
                /\ ConnOf(side) # NoConn => ConnOf(side) = HandleOf(side)
                /\ ~req.interactive => side \notin connClosed
                /\ (req.interactive /\ raisedAt \notin {"idle", "connect_target"})
                       => side \in connClosed

C16_Witness ==
    /\ pc = "returned" /\ outcome = "raised"
    /\ raisedAt \in CopyLoop
    /\ ~req.interactive
    /\ \A side \in Sides : conn_info(HandleOf(side)).is_active
    /\ connClosed = {}
    /\ clones = 1

\* C17: on every exit of run_clone (success, an exception during the clone,
\* failure to establish the target connection after the source cursor was
\* created) every cursor that was created is closed.
C17_CursorsClosed ==
    pc = "returned" => (srcCursor # "open" /\ targetCursor # "open")

\* C18: for each side, run_clone connects by itself only when the handle
\* passed is None or not active; an active handle is the connection used,
\* no connection is made for that side, and this is so in every call of a
\* sequence of calls with open handles.
C18_HandleReuse ==
    \A side \in Sides :
        ConnOf(side) # NoConn =>
            IF HandleOf(side) # NoConn /\ ~HandleOf(side).closed
            THEN /\ ConnOf(side) = HandleOf(side)
                 /\ side \notin opened
            ELSE /\ ConnOf(side).by = "run_clone"
                 /\ side \in opened

C18_Witness ==
    /\ pc = "returned" /\ outcome = "ok"
    /\ clones = 1
    /\ \A side \in Sides : HandleOf(side) = OpenConn(ConnOf(side).db)
    /\ opened = {}
    /\ ProfileSuffix(req.target_profile) # targetDb
    /\ Issued("insert") # {}

\* The rows the source held for the source user in table t when the call
\* began.
SourceRows(t) == {r \in pre[srcDb].rows[t] : Owner(t, r) = srcUserId}

\* C19: for a table of tableList in which the source holds no row of the
\* user, nothing is inserted into the target table and no error is raised
\* for it; the loop goes on, so that a call that returns normally has
\* inserted and committed the rows of every table that has some.
C19_ZeroRowsSkipped ==
    (Called /\ srcUserId # None) =>
        \A i \in 1..NTables :
            LET t == tableList[i]
            IN  IF SourceRows(t) = {}
                THEN /\ \A j \in Issued("insert") : ops[j][2] # t
                     /\ \A w \in written : w[1] # t
                     /\ tgt.rows[t] \subseteq pre[targetDb].rows[t]
                     /\ (raisedAt = "fetch" /\ exc # "DatabaseError")
                            => \E u \in {"app_user", "app_address"} :
                                   Cardinality(SourceRows(u)) > 1
                ELSE (pc = "returned" /\ outcome = "ok")
                        => /\ \E j \in Issued("insert") : ops[j][2] = t
                           /\ \E w \in written :
                                /\ w[1] = t
                                /\ w[2] \in store[targetDb].rows[t]

C19_Witness ==
    /\ pc = "returned" /\ outcome = "ok"
    /\ SourceRows("app_iqprogram") = {}
    /\ SourceRows("app_userhist") = {}
    /\ SourceRows("app_addresshist") # {}
    /\ \E w \in written : w[1] = "app_addresshist"
    /\ ops[Len(ops)] = <<"commit", "">>

\* C20: on the overwrite path the DELETEs are the first statements on the
\* target, in the reverse of tableList order (app_iqprogramhist first,
\* app_user last), with no commit between them; they are committed by one
\* commit, which is issued before the first INSERT, so that at the first
\* INSERT the rows held before are gone from the committed store.
C20_DeleteOrder ==
    LET D == Issued("delete")
        n == Cardinality(D)
    IN  D # {} =>
          /\ D = 1..n
          /\ n <= NTables
          /\ \A i \in D : ops[i] = <<"delete", tableList[NTables + 1 - i]>>
          /\ \A c \in Issued("commit") :
               c = NTables + 1 \/ \E j \in Issued("insert") : j < c
          /\ Issued("insert") # {} =>
               /\ n = NTables
               /\ ops[NTables + 1] = <<"commit", "">>
               /\ \A j \in Issued("insert") : j > NTables + 1
               /\ \A i \in 1..NTables :
                    Before(tableList[i], targetUserId)
                        \cap store[targetDb].rows[tableList[i]] = {}

C20_Witness ==
    /\ pc = "insert" /\ table = 1
    /\ Len(ops) = NTables + 1
    /\ ops[1] = <<"delete", "app_iqprogramhist">>
    /\ ops[NTables] = <<"delete", "app_user">>
    /\ ops[NTables + 1] = <<"commit", "">>
    /\ \E i \in 2..NTables : Before(tableList[i], targetUserId) # {}

\* The new-identity path: an app_user row with the source id was in the
\* target and the policy did not choose to overwrite it.
NewIdentityPath == PastDeletion /\ Existed /\ ~OverwriteCase

\* The app_user rows the invocation has written.
WrittenUsers == {w[2] : w \in {x \in written : x[1] = "app_user"}}

\* C21: on the new-identity path, for a Postgres and for a SQLite target, the
\* app_user insert yields the identifier the target assigned to the new row,
\* targetUserId takes it, every dependent row inserted afterwards carries it
\* as user_id, and the insert does not make the clone fail.
C21_NewIdentityAssigned ==
    NewIdentityPath =>
        /\ (pc = "returned" /\ raisedAt = "insert") => exc = "DatabaseError"
        /\ \A u \in WrittenUsers :
             /\ u.id = targetUserId
             /\ u.id >= pre[targetDb].next["app_user"]
             /\ u.id # srcUserId
        /\ \A w \in written : w[1] # "app_user" => w[2].user_id = targetUserId
        /\ (pc = "returned" /\ outcome = "ok")
             => Cardinality(WrittenUsers) = 1

\* The identifiers of the app_addressrd rows committed in the target.
CommittedAddressIds == {b.id : b \in store[targetDb].rows["app_addressrd"]}

\* C22: an app_addressrd row inserted by the address resolution is committed
\* on the target before the app_address row that references it is inserted,
\* and it stays committed when the clone fails afterwards and rolls back.
C22_AddressCommittedFirst ==
    Called =>
        /\ \A k \in 1..Len(resolved) :
             ~resolved[k].hit =>
                 \E b \in store[targetDb].rows["app_addressrd"] :
                     /\ b.id = resolved[k].id
                     /\ b.address_sha1 = resolved[k].sha1
                     /\ b \notin pre[targetDb].rows["app_addressrd"]
        /\ \A w \in written :
             w[1] = "app_address" =>
                 /\ w[2].eligibility_address_id \in CommittedAddressIds
                 /\ w[2].mailing_address_id \in CommittedAddressIds
        /\ \A i \in Issued("insert") : \A j \in Issued("insert") :
             (ops[i][2] = "app_addressrd" /\ ops[j][2] = "app_address")
                 => (i < j /\ ops[i + 1] = <<"commit", "">>)

C22_Witness ==
    /\ pc = "returned" /\ outcome = "raised"
    /\ raisedAt \in {"insert", "fetch"}
    /\ \E w \in written : w[1] = "app_address"
    /\ \E k \in 1..Len(resolved) :
         /\ ~resolved[k].hit
         /\ \E b \in store[targetDb].rows["app_addressrd"] :
              b.id = resolved[k].id /\ b \notin pre[targetDb].rows["app_addressrd"]
    /\ tgt = store[targetDb]

\* The password of the template account in the store the password is read
\* from.
TemplatePasswords ==
    {u.password : u \in {x \in PasswordSource.users : x.email = passwordClone}}

\* The app_user row of the source user when the call began.
SourceUsers == {u \in pre[srcDb].rows["app_user"] : u.id = srcUserId}

NoDevProfile ==
    /\ ProfileSuffix(req.source_profile) # "dev"
    /\ ProfileSuffix(req.target_profile) # "dev"

\* C24: an auxiliary dev connection is made only when neither profile ends
\* with 'dev', only the template password is read through it, and it is
\* closed on every path before run_clone returns, also when the password
\* query raises or finds no template account.
C24_AuxConnectionClosed ==
    /\ devConn # "none" => NoDevProfile
    /\ devConn = "closed" =>
         \E u \in store["dev"].rows["app_user"] :
             u.email = passwordClone /\ targetPassword = u.password
    /\ pc = "returned" => devConn # "open"

\* The rows the target held when the call began that the clone may delete:
\* those of a table of tableList owned by the source id, on a call that
\* issues DELETEs.
Deletable(t, r) ==
    /\ t # "app_addressrd"
    /\ Owner(t, r) = srcUserId
    /\ Issued("delete") # {}

\* Row r of table t is in the target, in the connection's view and in the
\* committed store, as it was.
Kept(t, r) == r \in tgt.rows[t] /\ r \in store[targetDb].rows[t]

\* C25: run_clone does not delete, update or re-key a target row owned by a
\* user id other than the one it deletes and inserts under; on the
\* new-identity path the rows of the existing user with the source id are
\* the same before and after the call.
C25_OtherUsersUntouched ==
    Called =>
        /\ \A t \in AllTables : \A r \in pre[targetDb].rows[t] :
             ~Deletable(t, r) => Kept(t, r)
        /\ Issued("delete") # {} => targetUserId = srcUserId
        /\ NewIdentityPath => (Issued("delete") = {} /\ Untouched)

C25_Witness ==
    /\ pc = "returned" /\ outcome = "ok"
    /\ Issued("delete") # {}
    /\ \E t \in DependentTables : \E r \in pre[targetDb].rows[t] :
         Owner(t, r) # srcUserId /\ Kept(t, r)
    /\ \E t \in DependentTables : \E r \in pre[targetDb].rows[t] :
         Owner(t, r) = srcUserId /\ ~Kept(t, r)

C25_WitnessNewIdentity ==
    /\ pc = "returned" /\ outcome = "ok"
    /\ NewIdentityPath
    /\ \E t \in DependentTables : Before(t, srcUserId) # {}
    /\ store[targetDb] # pre[targetDb]

\* The positions before the deletion phase: user lookup, target-existence
\* check, overwrite decision, template-password fetch.
Preparation == {"find_user", "check_target", "policy", "password"}

\* C27: the user lookup, the target-existence check, the overwrite decision
\* and the template-password fetch are all complete before the first DELETE
\* is issued, and a failure in any of them leaves the target store exactly
\* as it was before the call.
C27_PreparedBeforeDelete ==
    Called =>
        /\ pc \in Preparation => ops = <<>>
        /\ Issued("delete") # {} =>
             /\ srcUserId # None
             /\ userExists /\ targetUserId = srcUserId
             /\ \E u \in PasswordSource.users :
                  u.email = passwordClone /\ u.password = targetPassword
             /\ raisedAt \notin Preparation
        /\ (pc = "returned" /\ raisedAt \in Preparation) =>
             /\ outcome = "raised"
             /\ store = pre
             /\ tgt = pre[targetDb]
             /\ Issued("delete") = {} /\ Issued("insert") = {}
             /\ Issued("commit") = {}

C27_Witness ==
    /\ pc = "returned" /\ outcome = "raised"
    /\ raisedAt = "password"
    /\ Existed /\ srcEnv # targetEnv /\ targetEnv # "prod"
    /\ DeleteGuard
    /\ store[targetDb] = pre[targetDb]
    /\ \E t \in DependentTables : Before(t, srcUserId) # {}

\* The overwrite was chosen from the environments of the connections while
\* the target profile is named as production: profile and connection
\* disagree.
OverwriteOnProdProfile ==
    /\ Called /\ pc \notin Preparation
    /\ raisedAt \notin Preparation
    /\ OverwriteCase
    /\ ProfileSuffix(req.target_profile) = "prod"

\* C28: DELETEs are issued only when the overwrite was chosen from the
\* environments of the connections and target_profile does not end with
\* 'prod'.  When the overwrite was chosen but target_profile ends with
\* 'prod', nothing is deleted, the app_user insert uses the primary key of
\* the existing row and fails, and the call commits nothing in the target.
C28_DeleteNeedsBoth ==
    /\ (Called /\ Issued("delete") # {}) =>
           (OverwriteCase /\ ProfileSuffix(req.target_profile) # "prod")
    /\ OverwriteOnProdProfile =>
           /\ targetUserId = srcUserId
           /\ Issued("delete") = {}
           /\ Issued("commit") = {}
           /\ Untouched
           /\ written = {}
           /\ store = pre
           /\ pc \in {"delete", "fetch", "insert", "returned"}
           /\ pc \in {"fetch", "insert"} => table = 1
           /\ pc = "returned" =>
                /\ outcome = "raised"
                /\ raisedAt \in {"fetch", "insert"}
                /\ exc \in {"IntegrityError", "DatabaseError"}

C28_Witness ==
    /\ OverwriteOnProdProfile
    /\ pc = "returned"
    /\ raisedAt = "insert" /\ exc = "IntegrityError"
    /\ targetDb # "prod"
    /\ \E t \in DependentTables : Before(t, srcUserId) # {}
    /\ store = pre

(***************************************************************************)
(* Properties of the reporting subsystem (checked under ExtractSpec)       *)
(***************************************************************************)

\* The exceptions that come from the database contents, not from a failing
\* connection or statement.
ContentException ==
    xpc = "raised" /\ xexc[2] # "DatabaseError"

RunAllOrder ==
    <<"run_all", "export_global", "export_income", "export_programs",
      "export_feedback">>

\* C30: export_income and export_programs return normally for every database
\* content (no applicant of the income verification, no applicant of a
\* program included), so that run_all goes through export_global,
\* export_income, export_programs and export_feedback in that order.
C30_ExportsReturnNormally ==
    /\ ~ContentException
    /\ (xpc = "done" /\ xreq.export_type = "ALL") => xtrace = RunAllOrder

\* The statements of a reset: one UPDATE ... set is_updated=false for every
\* live table of hist_tables, then the commit.
ResetStatements ==
    [i \in 1..Len(hist_tables) |-> <<"update", hist_tables[i]>>]

\* C26 (as stated): every operation of Extract only reads the database: no
\* run executes an UPDATE, INSERT or DELETE or commits a change.
C26_ReadOnly ==
    /\ xops = <<>>
    /\ flags = content.flags

\* C26 (amended): export_global, export_income and export_feedback only
\* read.  export_programs, and so run_all, executes the four UPDATEs that
\* set is_updated=false and one commit, and nothing else, when reset_updates
\* and save_file are true and an extract was written; a run never sets a
\* flag and never inserts or deletes.
C26_OnlyProgramsResets ==
    /\ xops \in {<<>>, ResetStatements,
                 Append(ResetStatements, <<"commit", "">>)}
    /\ xops # <<>> =>
         /\ xreq.export_type \in {"ALL", "PROGRAM"}
         /\ xreq.reset_updates /\ xreq.save_file
         /\ \E f \in files : f[1] \in {"grocery", "spin"} /\ f[2] # {}
         /\ "export_programs" \in {xtrace[i] : i \in 1..Len(xtrace)}
         /\ xpc \notin {"idle", "global", "income", "programs", "reset"}
    /\ flags \subseteq content.flags
    /\ flags # content.flags => xops = Append(ResetStatements, <<"commit", "">>)
    /\ xreq.export_type = "INCOME" => xops = <<>> /\ flags = content.flags

\* A run of export_programs with a committed reset that changed a flag, and
\* the run finished.
C26_Witness ==
    /\ xpc = "done"
    /\ xops = Append(ResetStatements, <<"commit", "">>)
    /\ flags # content.flags

\* The users of the program extracts written so far.
ExtractedUsers ==
    UNION {f[2] : f \in {g \in files : g[1] \in {"grocery", "spin"}}}

\* The flags the run has reset, in the connection's view and as committed.
ResetInView == content.flags \ xview

ResetCommitted == content.flags \ flags

Commits == {i \in 1..Len(xops) : xops[i][1] = "commit"}

\* C29: export_programs sets is_updated=false only for users of an extract
\* file written during the same call, only when reset_updates and save_file
\* are both true, and commits once, after all active programs have been
\* processed; an exception while a program is being processed leaves every
\* flag as it was.
C29_ResetOnlyExtracted ==
    /\ \A f \in ResetInView \cup ResetCommitted : f[2] \in ExtractedUsers
    /\ (ResetInView \cup ResetCommitted) # {} =>
           xreq.reset_updates /\ xreq.save_file
    /\ Cardinality(Commits) <= 1
    /\ Commits # {} =>
         /\ xprog = NPrograms + 1
         /\ \A i \in 1..NPrograms :
                \E f \in files : f[1] = active_programs[i]
    /\ (xpc = "raised" /\ xexc[1] = "programs") =>
           /\ flags = content.flags
           /\ xops = <<>>

\* The reset was committed; it cleared a flag of an extracted user and kept
\* the flag of a user of no extract.
C29_Witness ==
    /\ Commits # {}
    /\ ResetCommitted # {}
    /\ \E f \in flags : f[2] \notin ExtractedUsers

\* A program failed after the extract of an earlier one, with flagged users
\* in it, was written.
C29_WitnessFailure ==
    /\ xpc = "raised" /\ xexc[1] = "programs"
    /\ xreq.reset_updates /\ xreq.save_file
    /\ \E f \in content.flags : f[2] \in ExtractedUsers

====
